---------------------------- MODULE Spec2Model ----------------------------
(***************************************************************************)
(* PhysicsEngine (physicsEngine.js, src/unnamed/part_000): the mass-spring *)
(* simulator of the avatar viewer, with the two places of the application  *)
(* that drive it (src/app.js togglePhysics, src/uiController.js).          *)
(*                                                                         *)
(* Numbers.  The engine computes with IEEE doubles.  The model computes    *)
(* with fixed-point numbers: the integer n stands for n / Scale, sums and  *)
(* differences are exact, and every product, quotient and square root is   *)
(* rounded toward zero to a multiple of 1 / Scale, in the order in which   *)
(* the source evaluates it.                                                *)
(*                                                                         *)
(* Objects.  A spring or constraint holds references to mass objects of    *)
(* this.masses; the model holds the index of that object in masses.        *)
(*                                                                         *)
(* Specifications.  Spec calls the methods of the engine in any order over *)
(* wide inputs, a few calls deep.  SpecRig calls init, enable, update,     *)
(* toggleFixed and applyImpulse over few inputs, more calls deep, on       *)
(* meshes with chained constraints, coincident vertices and a weightless   *)
(* vertex.  SpecLoop runs the animation loop of src/app.js                 *)
(* (startPhysicsLoop) over the engine.                                     *)
(***************************************************************************)
EXTENDS Integers, Sequences, FiniteSets

VARIABLES
    gravity,            \* this.gravity
    damping,            \* this.damping
    stiffness,          \* this.stiffness
    enabled,            \* this.enabled
    masses,             \* this.masses
    springs,            \* this.springs
    constraints,        \* this.constraints
    originalPositions,  \* this.originalPositions (Map id -> position)
    ret,                \* what the last call returned
    steps,              \* successful updates so far (bounds the run)
    kicks,              \* force/impulse applications so far (bounds the run)
    tweaks,             \* configuration and query calls so far (bounds the run)
    cap,                \* how many counted calls the run may make in all
    app,                \* MeshVisualizerApp: its animation loop (SpecLoop)
    hist                \* history of the run, read by the properties only

engine == <<gravity, damping, stiffness, enabled, masses, springs,
            constraints, originalPositions>>

vars == <<gravity, damping, stiffness, enabled, masses, springs,
          constraints, originalPositions, ret, steps, kicks, tweaks, cap,
          app, hist>>

---------------------------------------------------------------------------
(* Bounds of the model *)

\* fixed-point resolution: units per 1.0
Scale == 100

\* successful updates in one run
MaxSteps == 2

\* applyForce / applyImpulse / applyWind / applyExplosion calls in one run
MaxKicks == 2

\* setGravity / setStiffness / setDamping / toggleFixed / getPhysicsData
\* calls in one run
MaxTweaks == 2

\* all of these calls together in one run over the wide inputs of Next
MaxCalls == 3

\* all of these calls together in one run over the narrow inputs of RigNext
MaxDeep == 5

\* the time of the last animation frame of a run, in milliseconds
MaxClock == 400

---------------------------------------------------------------------------
(* Fixed-point arithmetic *)

Abs(a) == IF a < 0 THEN -a ELSE a

\* a / b rounded toward zero
TDiv(a, b) ==
    LET q == Abs(a) \div Abs(b)
    IN  IF (a < 0) # (b < 0) THEN -q ELSE q

\* the decimal literal n/d of the source
Lit(n, d) == TDiv(n * Scale, d)

\* a * b
Mul(a, b) == TDiv(a * b, Scale)

\* a / b
Div(a, b) == TDiv(a * Scale, b)

RECURSIVE SqrtIter(_, _)
SqrtIter(n, x) ==
    LET y == (x + n \div x) \div 2
    IN  IF y >= x THEN x ELSE SqrtIter(n, y)

\* Math.sqrt of a sum of squares n (n is in units of 1/Scale^2)
Sqrt(n) == IF n = 0 THEN 0 ELSE SqrtIter(n, n)

\* Math.max, Math.min
Max(a, b) == IF a >= b THEN a ELSE b
Min(a, b) == IF a <= b THEN a ELSE b

Vec(a, b, c) == [x |-> a, y |-> b, z |-> c]
Zero == Vec(0, 0, 0)
VAdd(u, v) == Vec(u.x + v.x, u.y + v.y, u.z + v.z)
VSub(u, v) == Vec(u.x - v.x, u.y - v.y, u.z - v.z)

\* JavaScript's undefined and null
Undefined == "undefined"
Null == "null"

---------------------------------------------------------------------------
(* Program constants *)

\* constructor: this.gravity = 9.8
Gravity0 == Lit(98, 10)
\* constructor: this.damping = 0.95
Damping0 == Lit(95, 100)
\* constructor: this.stiffness = 0.15
Stiffness0 == Lit(15, 100)
\* constructor: this.timeStep = 1/60, the deltaTime of update()
timeStep == Div(Scale, 60 * Scale)
\* parsePhysicsData: muscleTension || 0.3
DefaultTension == Lit(3, 10)
\* parsePhysicsData: spring.damping
SpringDamping == Lit(1, 10)
\* addJointConstraints: stiffness 0.9
JointStiffness == Lit(9, 10)
\* addCollisionConstraints / handleCollisions: groundY = -50
groundY == -50 * Scale
\* restitution 0.7 and friction 0.9
Restitution == Lit(7, 10)
Friction == Lit(9, 10)
\* applyConstraints: for (let i = 0; i < 3; i++)
Iterations == 3

\* group.includes('head') over the group tags of the meshes
GroupIncludesHead(g) == g \in {"head", "head_upper", "forehead"}

\* the anatomical table of addJointConstraints
jointConstraints ==
    << <<"head_top", "neck_top_center", 15 * Scale>>,
       <<"head_chin", "neck_top_front", 8 * Scale>>,
       <<"shoulder_left_top", "clavicle_left", 12 * Scale>>,
       <<"shoulder_right_top", "clavicle_right", 12 * Scale>>,
       <<"hip_left", "waist_left", 10 * Scale>>,
       <<"hip_right", "waist_right", 10 * Scale>>,
       <<"neck_base_center", "spine_center", 30 * Scale>>,
       <<"spine_center", "waist_center_front", 15 * Scale>> >>

---------------------------------------------------------------------------
(* Input meshes (meshData): vertices, edges, physics.springs.muscleTension *)
(* and metadata.biomechanical.jointConstraints.  hasTension is FALSE when  *)
(* physics, physics.springs or muscleTension is absent; present is FALSE   *)
(* for a null or undefined meshData.                                       *)

Vertex(id, x, y, z, group, type, weight) ==
    [id |-> id, x |-> x, y |-> y, z |-> z,
     group |-> group, type |-> type, weight |-> weight]

NoMesh ==
    [present |-> FALSE, vertices |-> <<>>, edges |-> <<>>,
     hasTension |-> FALSE, muscleTension |-> 0, jointConstraints |-> FALSE]

\* a fixed joint above a free vertex, an anatomical pair of the table,
\* one edge to a vertex that does not exist, no physics section
MeshTorso ==
    [present |-> TRUE,
     vertices |-> << Vertex("spine_center", 0, 0, 0, "spine", "joint", Scale),
                     Vertex("waist_center_front", 0, -12 * Scale, 5 * Scale,
                            "torso", "surface", Lit(5, 10)) >>,
     edges |-> << <<"spine_center", "waist_center_front">>,
                  <<"waist_center_front", "missing_vertex">> >>,
     hasTension |-> FALSE, muscleTension |-> 0, jointConstraints |-> TRUE]

\* a vertex fixed by its head group, a free neck vertex, muscleTension 0.5
MeshHead ==
    [present |-> TRUE,
     vertices |-> << Vertex("head_top", 0, 10 * Scale, 0, "head_upper", "surface", Scale),
                     Vertex("neck_top_center", 3 * Scale, 6 * Scale, 0,
                            "neck", "surface", Scale) >>,
     edges |-> << <<"head_top", "neck_top_center">> >>,
     hasTension |-> TRUE, muscleTension |-> Lit(5, 10), jointConstraints |-> FALSE]

\* two free vertices at the ground, one of them below it, muscleTension 0
MeshLegs ==
    [present |-> TRUE,
     vertices |-> << Vertex("foot_left", 0, -51 * Scale, 0, "leg", "surface", Scale),
                     Vertex("knee_left", Scale, -49 * Scale, 0, "leg", "surface",
                            Lit(2, 10)) >>,
     edges |-> << <<"knee_left", "foot_left">> >>,
     hasTension |-> TRUE, muscleTension |-> 0, jointConstraints |-> FALSE]

\* one free vertex above the ground, no edge
MeshBall ==
    [present |-> TRUE,
     vertices |-> << Vertex("hand_left", 0, 10 * Scale, 0, "arm", "surface", Scale) >>,
     edges |-> <<>>,
     hasTension |-> FALSE, muscleTension |-> 0, jointConstraints |-> FALSE]

\* the same with a lighter vertex
MeshPebble ==
    [present |-> TRUE,
     vertices |-> << Vertex("hand_left", 0, 10 * Scale, 0, "arm", "surface",
                            Lit(3, 10)) >>,
     edges |-> <<>>,
     hasTension |-> FALSE, muscleTension |-> 0, jointConstraints |-> FALSE]

Meshes == {NoMesh, MeshTorso, MeshHead, MeshLegs, MeshBall, MeshPebble}

\* a fixed joint over two free vertices close to the ground: both anatomical
\* pairs of the spine, which share spine_center and are both too short, and
\* one edge
MeshSpine ==
    [present |-> TRUE,
     vertices |-> << Vertex("neck_base_center", 0, -20 * Scale, 0, "neck", "joint", Scale),
                     Vertex("spine_center", 0, -40 * Scale, 0, "spine", "surface", Scale),
                     Vertex("waist_center_front", 3 * Scale, -46 * Scale, 0,
                            "torso", "surface", Lit(5, 10)) >>,
     edges |-> << <<"spine_center", "waist_center_front">> >>,
     hasTension |-> FALSE, muscleTension |-> 0, jointConstraints |-> TRUE]

\* two free vertices at the same point, joined by an edge and by an
\* anatomical pair, before a fixed joint and a free vertex that are joined
\* in the same two ways
MeshKnot ==
    [present |-> TRUE,
     vertices |-> << Vertex("hip_left", 0, 0, 0, "hip", "surface", Scale),
                     Vertex("waist_left", 0, 0, 0, "torso", "surface", Scale),
                     Vertex("hip_right", 5 * Scale, 0, 0, "hip", "joint", Scale),
                     Vertex("waist_right", 5 * Scale, -5 * Scale, 0,
                            "torso", "surface", Scale) >>,
     edges |-> << <<"hip_left", "waist_left">>, <<"hip_right", "waist_right">> >>,
     hasTension |-> FALSE, muscleTension |-> 0, jointConstraints |-> TRUE]

\* one joint with weight 0
MeshWeightless ==
    [present |-> TRUE,
     vertices |-> << Vertex("jaw", 0, 5 * Scale, 0, "face", "joint", 0) >>,
     edges |-> <<>>,
     hasTension |-> FALSE, muscleTension |-> 0, jointConstraints |-> FALSE]

RigMeshes == {MeshSpine, MeshKnot, MeshWeightless}

---------------------------------------------------------------------------
(* Construction *)

\* this.masses.find(m => m.id === id): the index of the first match, 0 if none
FindMass(ms, id) ==
    IF \E i \in 1..Len(ms) : ms[i].id = id
    THEN CHOOSE i \in 1..Len(ms) :
            /\ ms[i].id = id
            /\ \A j \in 1..(i - 1) : ms[j].id # id
    ELSE 0

\* the fixed flag of a new mass
IsFixedVertex(v) == v.type = "joint" \/ GroupIncludesHead(v.group)

\* the mass object made from one vertex
NewMass(v) ==
    [id |-> v.id,
     position |-> Vec(v.x, v.y, v.z),
     originalPosition |-> Vec(v.x, v.y, v.z),
     velocity |-> Zero,
     force |-> Zero,
     mass |-> v.weight * 10,
     fixed |-> IsFixedVertex(v),
     group |-> v.group,
     type |-> v.type]

NewMasses(meshData) ==
    [i \in 1..Len(meshData.vertices) |-> NewMass(meshData.vertices[i])]

\* originalPositions.set(vertex.id, ...) for every vertex, in order
NewOriginalPositions(meshData) ==
    LET vs == meshData.vertices
        last(id) == CHOOSE i \in 1..Len(vs) :
                        /\ vs[i].id = id
                        /\ \A j \in (i + 1)..Len(vs) : vs[j].id # id
    IN  [id \in {vs[i].id : i \in 1..Len(vs)} |->
            Vec(vs[last(id)].x, vs[last(id)].y, vs[last(id)].z)]

\* meshData.physics?.springs?.muscleTension || 0.3
TensionOf(meshData) ==
    IF meshData.hasTension /\ meshData.muscleTension # 0
    THEN meshData.muscleTension
    ELSE DefaultTension

Dist(dx, dy, dz) == Sqrt(dx * dx + dy * dy + dz * dz)

\* mutant: the rest length is measured along x only
NewSpringFlat(ms, edge, tension, globalStiffness) ==
    LET v1 == FindMass(ms, edge[1])
        v2 == FindMass(ms, edge[2])
    IN  [mass1 |-> v1, mass2 |-> v2,
         restLength |-> Abs(ms[v2].position.x - ms[v1].position.x),
         stiffness |-> Mul(tension, globalStiffness),
         damping |-> SpringDamping]

\* the spring made from one edge whose two ends exist
NewSpring(ms, edge, tension, globalStiffness) ==
    LET v1 == FindMass(ms, edge[1])
        v2 == FindMass(ms, edge[2])
        dx == ms[v2].position.x - ms[v1].position.x
        dy == ms[v2].position.y - ms[v1].position.y
        dz == ms[v2].position.z - ms[v1].position.z
    IN  [mass1 |-> v1, mass2 |-> v2,
         restLength |-> Dist(dx, dy, dz),
         stiffness |-> Mul(tension, globalStiffness),
         damping |-> SpringDamping]

\* mutant: a spring for every edge, a missing end replaced by the first mass
NewSpringsForAllEdges(ms, meshData, globalStiffness) ==
    [k \in 1..Len(meshData.edges) |->
        [mass1 |-> Max(1, FindMass(ms, meshData.edges[k][1])),
         mass2 |-> Max(1, FindMass(ms, meshData.edges[k][2])),
         restLength |-> 0,
         stiffness |-> Mul(TensionOf(meshData), globalStiffness),
         damping |-> SpringDamping]]

NewSprings(ms, meshData, globalStiffness) ==
    LET valid == SelectSeq(meshData.edges,
                    LAMBDA e : FindMass(ms, e[1]) # 0 /\ FindMass(ms, e[2]) # 0)
    IN  [k \in 1..Len(valid) |->
            NewSpring(ms, valid[k], TensionOf(meshData), globalStiffness)]

addJointConstraints(ms) ==
    LET valid == SelectSeq(jointConstraints,
                    LAMBDA t : FindMass(ms, t[1]) # 0 /\ FindMass(ms, t[2]) # 0)
    IN  [k \in 1..Len(valid) |->
            [type |-> "distance",
             mass1 |-> FindMass(ms, valid[k][1]),
             mass2 |-> FindMass(ms, valid[k][2]),
             distance |-> valid[k][3],
             stiffness |-> JointStiffness]]

addCollisionConstraints(ms) ==
    LET idx == [i \in 1..Len(ms) |-> i]
        below == SelectSeq(idx,
                    LAMBDA i : ~ms[i].fixed /\ ms[i].position.y < groundY)
    IN  [k \in 1..Len(below) |->
            [type |-> "collision", mass |-> below[k],
             groundY |-> groundY, restitution |-> Restitution]]

\* mutant: addJointConstraints is called whatever the metadata says
NewConstraintsAlways(ms, meshData) ==
    addJointConstraints(ms) \o addCollisionConstraints(ms)

NewConstraints(ms, meshData) ==
    (IF meshData.jointConstraints THEN addJointConstraints(ms) ELSE <<>>)
        \o addCollisionConstraints(ms)

---------------------------------------------------------------------------
(* The phases of update *)

\* mutant: "force.y -= gravity" for "force.y -= mass * gravity"
applyGravityUnscaled(ms, g) ==
    [i \in 1..Len(ms) |->
        IF ~ms[i].fixed THEN [ms[i] EXCEPT !.force.y = @ - g] ELSE ms[i]]

\* applyForces, first loop: gravity on every non-fixed mass
applyGravity(ms, g) ==
    [i \in 1..Len(ms) |->
        IF ~ms[i].fixed
        THEN [ms[i] EXCEPT !.force.y = @ - Mul(ms[i].mass, g)]
        ELSE ms[i]]

\* applyForces, body of the second loop: one spring
applySpring(ms, spring) ==
    LET m1 == spring.mass1
        m2 == spring.mass2
        dx == ms[m2].position.x - ms[m1].position.x
        dy == ms[m2].position.y - ms[m1].position.y
        dz == ms[m2].position.z - ms[m1].position.z
        distance == Dist(dx, dy, dz)
        displacement == distance - spring.restLength
        forceMagnitude == Mul(spring.stiffness, displacement)
        dirX == Div(dx, distance)
        dirY == Div(dy, distance)
        dirZ == Div(dz, distance)
        f == Vec(Mul(forceMagnitude, dirX), Mul(forceMagnitude, dirY),
                 Mul(forceMagnitude, dirZ))
        ms1 == IF ~ms[m1].fixed
               THEN [ms EXCEPT ![m1].force = VAdd(@, f)]
               ELSE ms
    IN  IF distance = 0 THEN ms
        ELSE IF ~ms1[m2].fixed
             THEN [ms1 EXCEPT ![m2].force = VSub(@, f)]
             ELSE ms1

\* mutant: "return" leaves the loop over the springs, not one turn of it
RECURSIVE applySpringsStopping(_, _, _)
applySpringsStopping(ms, sps, k) ==
    IF k > Len(sps) THEN ms
    ELSE IF ms[sps[k].mass1].position = ms[sps[k].mass2].position THEN ms
    ELSE applySpringsStopping(applySpring(ms, sps[k]), sps, k + 1)

RECURSIVE applySprings(_, _, _)
applySprings(ms, sps, k) ==
    IF k > Len(sps) THEN ms
    ELSE applySprings(applySpring(ms, sps[k]), sps, k + 1)

applyForces(ms, sps, g) == applySprings(applyGravity(ms, g), sps, 1)

\* mutant: integrate without its "if (mass.fixed) return"
integrateMassAlways(m, deltaTime, damp) ==
    LET v == Vec(Mul(m.velocity.x + Mul(Div(m.force.x, m.mass), deltaTime), damp),
                 Mul(m.velocity.y + Mul(Div(m.force.y, m.mass), deltaTime), damp),
                 Mul(m.velocity.z + Mul(Div(m.force.z, m.mass), deltaTime), damp))
    IN  [m EXCEPT !.velocity = v,
                  !.position = Vec(@.x + Mul(v.x, deltaTime),
                                   @.y + Mul(v.y, deltaTime),
                                   @.z + Mul(v.z, deltaTime))]

\* integrate, body of the loop: one mass
integrateMass(m, deltaTime, damp) ==
    LET ax == Div(m.force.x, m.mass)
        ay == Div(m.force.y, m.mass)
        az == Div(m.force.z, m.mass)
        v == Vec(Mul(m.velocity.x + Mul(ax, deltaTime), damp),
                 Mul(m.velocity.y + Mul(ay, deltaTime), damp),
                 Mul(m.velocity.z + Mul(az, deltaTime), damp))
    IN  IF m.fixed THEN m
        ELSE [m EXCEPT !.velocity = v,
                       !.position = Vec(@.x + Mul(v.x, deltaTime),
                                        @.y + Mul(v.y, deltaTime),
                                        @.z + Mul(v.z, deltaTime))]

integrate(ms, deltaTime, damp) ==
    [i \in 1..Len(ms) |-> integrateMass(ms[i], deltaTime, damp)]

\* mutant: a free end whose partner is fixed takes the whole correction
applyDistanceConstraintWhole(ms, constraint) ==
    LET m1 == constraint.mass1
        m2 == constraint.mass2
        dx == ms[m2].position.x - ms[m1].position.x
        dy == ms[m2].position.y - ms[m1].position.y
        dz == ms[m2].position.z - ms[m1].position.z
        distance == Dist(dx, dy, dz)
        diff == Div(distance - constraint.distance, distance)
        share == IF ms[m1].fixed \/ ms[m2].fixed THEN Scale ELSE Lit(5, 10)
        adjust == Vec(Mul(Mul(Mul(dx, diff), share), constraint.stiffness),
                      Mul(Mul(Mul(dy, diff), share), constraint.stiffness),
                      Mul(Mul(Mul(dz, diff), share), constraint.stiffness))
        ms1 == IF ~ms[m1].fixed
               THEN [ms EXCEPT ![m1].position = VAdd(@, adjust)]
               ELSE ms
    IN  IF distance = 0 THEN ms
        ELSE IF ~ms1[m2].fixed
             THEN [ms1 EXCEPT ![m2].position = VSub(@, adjust)]
             ELSE ms1

applyDistanceConstraint(ms, constraint) ==
    LET m1 == constraint.mass1
        m2 == constraint.mass2
        dx == ms[m2].position.x - ms[m1].position.x
        dy == ms[m2].position.y - ms[m1].position.y
        dz == ms[m2].position.z - ms[m1].position.z
        distance == Dist(dx, dy, dz)
        diff == Div(distance - constraint.distance, distance)
        adjust == Vec(Mul(Mul(Mul(dx, diff), Lit(5, 10)), constraint.stiffness),
                      Mul(Mul(Mul(dy, diff), Lit(5, 10)), constraint.stiffness),
                      Mul(Mul(Mul(dz, diff), Lit(5, 10)), constraint.stiffness))
        ms1 == IF ~ms[m1].fixed
               THEN [ms EXCEPT ![m1].position = VAdd(@, adjust)]
               ELSE ms
    IN  IF distance = 0 THEN ms
        ELSE IF ~ms1[m2].fixed
             THEN [ms1 EXCEPT ![m2].position = VSub(@, adjust)]
             ELSE ms1

\* one pass of constraints.forEach
RECURSIVE constraintPass(_, _, _)
constraintPass(ms, cs, k) ==
    IF k > Len(cs) THEN ms
    ELSE constraintPass(
            IF cs[k].type = "distance"
            THEN applyDistanceConstraint(ms, cs[k])
            ELSE ms,
            cs, k + 1)

RECURSIVE constraintLoop(_, _, _)
constraintLoop(ms, cs, i) ==
    IF i >= Iterations THEN ms
    ELSE constraintLoop(constraintPass(ms, cs, 1), cs, i + 1)

applyConstraints(ms, cs) == constraintLoop(ms, cs, 0)

\* mutant: the bounce keeps the sign of velocity.y
collideMassNoBounce(m) ==
    IF ~m.fixed /\ m.position.y < groundY
    THEN [m EXCEPT !.position.y = groundY,
                   !.velocity = Vec(Mul(@.x, Friction),
                                    Mul(@.y, Restitution),
                                    Mul(@.z, Friction))]
    ELSE m

\* handleCollisions, body of the loop: one mass
collideMass(m) ==
    IF ~m.fixed /\ m.position.y < groundY
    THEN [m EXCEPT !.position.y = groundY,
                   !.velocity = Vec(Mul(@.x, Friction),
                                    Mul(-@.y, Restitution),
                                    Mul(@.z, Friction))]
    ELSE m

handleCollisions(ms) == [i \in 1..Len(ms) |-> collideMass(ms[i])]

\* mutant: clearForces skips the fixed masses, as the other loops do
clearForcesOfFree(ms) ==
    [i \in 1..Len(ms) |-> IF ms[i].fixed THEN ms[i] ELSE [ms[i] EXCEPT !.force = Zero]]

clearForces(ms) == [i \in 1..Len(ms) |-> [ms[i] EXCEPT !.force = Zero]]

\* mutant: the list leaves out the fixed masses
getFreeMassPositions(ms) ==
    LET free == SelectSeq(ms, LAMBDA m : ~m.fixed)
    IN  [i \in 1..Len(free) |-> [id |-> free[i].id, position |-> free[i].position]]

getMassPositions(ms) ==
    [i \in 1..Len(ms) |-> [id |-> ms[i].id, position |-> ms[i].position]]

---------------------------------------------------------------------------
(* Return values: one record shape for undefined, null, a boolean, the     *)
(* position list of update and the record of getPhysicsData                *)

NoData ==
    [enabled |-> FALSE, gravity |-> 0, damping |-> 0, stiffness |-> 0,
     massCount |-> 0, springCount |-> 0, constraintCount |-> 0]

RetUndefined ==
    [kind |-> Undefined, positions |-> <<>>, flag |-> FALSE, data |-> NoData]
RetNull ==
    [kind |-> Null, positions |-> <<>>, flag |-> FALSE, data |-> NoData]
RetBoolean(b) ==
    [kind |-> "boolean", positions |-> <<>>, flag |-> b, data |-> NoData]
RetPositions(ps) ==
    [kind |-> "positions", positions |-> ps, flag |-> FALSE, data |-> NoData]
RetData(d) ==
    [kind |-> "data", positions |-> <<>>, flag |-> FALSE, data |-> d]

---------------------------------------------------------------------------
(* History, read by the properties only.                                   *)
(*   pending     per mass, the sum of what applyForce, applyWind and       *)
(*               applyExplosion added to its accumulator since the         *)
(*               accumulators were last zeroed (update, reset, init)       *)
(*   stale       1: some of pending was added while the engine was         *)
(*               disabled; 2: and a disabled update has been called since  *)
(*   carried     the last call was a successful update that started with   *)
(*               stale = 2                                                 *)
(*   resets      how many of the last calls were reset(), up to 2          *)
(*   dt, before, forces, integrated, relaxed                               *)
(*               of the last call when it was a successful update: its     *)
(*               argument and the masses at its start, after applyForces,  *)
(*               after integrate and after applyConstraints                *)
(*   built       the meshData of the last init that was given one          *)
(*   rebuilt     the last call, resets aside, was an init that replaced    *)
(*               the masses of another mesh                                *)
(*   toggled, toggles, untoggled                                           *)
(*               of the last call when it was toggleFixed of a known id:   *)
(*               that id, how many of the last calls were toggleFixed of   *)
(*               it (up to 2), and the masses when the last one was called *)
(*   thawed      of the last call when it was a successful update: the id  *)
(*               that the call before it, a toggleFixed, un-fixed, or ""   *)

Zeros(n) == [i \in 1..n |-> Zero]

NoHist(n) ==
    [pending |-> Zeros(n), stale |-> 0, carried |-> FALSE, resets |-> 0,
     dt |-> 0, before |-> <<>>, forces |-> <<>>, integrated |-> <<>>,
     relaxed |-> <<>>, toggled |-> "", toggles |-> 0, untoggled |-> <<>>,
     thawed |-> "", built |-> NoMesh, rebuilt |-> FALSE]

\* after a call that is neither update nor reset and adds no force
Quiet(h) ==
    [h EXCEPT !.carried = FALSE, !.resets = 0, !.dt = 0, !.before = <<>>,
              !.forces = <<>>, !.integrated = <<>>, !.relaxed = <<>>,
              !.toggled = "", !.toggles = 0, !.untoggled = <<>>,
              !.thawed = "", !.rebuilt = FALSE]

\* after a call that took the accumulators from ms to ms2 by adding forces
Added(h, ms, ms2, isEnabled) ==
    [Quiet(h) EXCEPT
        !.pending = [i \in 1..Len(ms) |->
                        VAdd(h.pending[i], VSub(ms2[i].force, ms[i].force))],
        !.stale = IF ms2 # ms /\ ~isEnabled THEN Max(@, 1) ELSE @]

---------------------------------------------------------------------------
(* Inputs *)

DtInputs == {0 - Scale, 0, Scale \div 2}
GravityInputs == {0, 20 * Scale}
ClampInputs == {0 - (Scale \div 2), Scale \div 2, 2 * Scale}
IdInputs == {"spine_center", "waist_center_front", "neck_top_center",
             "foot_left", "nobody"}
ForceInputs == {Vec(2 * Scale, 30 * Scale, 0 - Scale)}
WindInputs == {Vec(Scale, 0, 0)}
ExplosionInputs ==
    { [center |-> Vec(0, 0, 0), radius |-> 20 * Scale, force |-> 5 * Scale],
      [center |-> Vec(0, -51 * Scale, 0), radius |-> 3 * Scale, force |-> 5 * Scale] }

---------------------------------------------------------------------------
(* The engine *)

\* constructor
constructor ==
    /\ gravity = Gravity0
    /\ damping = Damping0
    /\ stiffness = Stiffness0
    /\ enabled = FALSE
    /\ masses = <<>>
    /\ springs = <<>>
    /\ constraints = <<>>
    /\ originalPositions = [id \in {} |-> Zero]
    /\ ret = RetUndefined
    /\ steps = 0
    /\ kicks = 0
    /\ tweaks = 0
    /\ hist = NoHist(0)

\* MeshVisualizerApp.constructor, the fields of the animation loop.
\*   animationLoopId  0 for null, 1 for the handle of the pending frame
\*   lastTime         this.lastTime, in milliseconds
\* and, read by the properties only,
\*   clock            the time of the last frame that ran
\*   ticks            frames run since the last startPhysicsLoop, up to 2
\*   tick             of the last frame: the time since the frame before it
\*                    (0 for the first of its loop), the flag of the engine
\*                    when it ran, whether it called update, with which
\*                    deltaTime, and whether that update was a successful one
NoTick == [elapsed |-> 0, enabled |-> FALSE, called |-> FALSE, dt |-> 0,
           stepped |-> FALSE]

appConstructor ==
    app = [animationLoopId |-> 0, lastTime |-> 0, clock |-> 0, ticks |-> 0,
           tick |-> NoTick]

Init == constructor /\ cap = MaxCalls /\ appConstructor

\* mutant: parsePhysicsData without its originalPositions.clear()
initKeepingPositions(meshData) ==
    /\ IF ~meshData.present
       THEN /\ UNCHANGED <<masses, springs, constraints, originalPositions>>
            /\ hist' = Quiet(hist)
       ELSE LET ms == NewMasses(meshData)
                new == NewOriginalPositions(meshData)
            IN  /\ masses' = ms
                /\ springs' = NewSprings(ms, meshData, stiffness)
                /\ constraints' = NewConstraints(ms, meshData)
                /\ originalPositions' =
                        [id \in DOMAIN originalPositions \cup DOMAIN new |->
                            IF id \in DOMAIN new THEN new[id]
                            ELSE originalPositions[id]]
                /\ hist' = [NoHist(Len(ms)) EXCEPT
                               !.built = meshData,
                               !.rebuilt = (masses # <<>> /\ hist.built # meshData)]
    /\ ret' = RetUndefined
    /\ UNCHANGED <<gravity, damping, stiffness, enabled, steps, kicks, tweaks, cap, app>>

\* init(meshData), with parsePhysicsData
init(meshData) ==
    /\ IF ~meshData.present
       THEN /\ UNCHANGED <<masses, springs, constraints, originalPositions>>
            /\ hist' = Quiet(hist)
       ELSE LET ms == NewMasses(meshData)
            IN  /\ masses' = ms
                /\ springs' = NewSprings(ms, meshData, stiffness)
                /\ constraints' = NewConstraints(ms, meshData)
                /\ originalPositions' = NewOriginalPositions(meshData)
                /\ hist' = [NoHist(Len(ms)) EXCEPT
                               !.built = meshData,
                               !.rebuilt = (masses # <<>> /\ hist.built # meshData)]
    /\ ret' = RetUndefined
    /\ UNCHANGED <<gravity, damping, stiffness, enabled, steps, kicks, tweaks, cap, app>>

\* mutant: the guard lets deltaTime = 0 through
SkipsNegativeOnly(isEnabled, deltaTime) == ~isEnabled \/ deltaTime < 0

\* update: if (!this.enabled || deltaTime <= 0) return;
Skips(isEnabled, deltaTime) == ~isEnabled \/ deltaTime <= 0

\* mutant: update clears the forces before its early return
updatedClearing(ms, sps, cs, g, damp, isEnabled, deltaTime) ==
    IF Skips(isEnabled, deltaTime) THEN clearForces(ms)
    ELSE clearForces(
            handleCollisions(
                applyConstraints(
                    integrate(applyForces(ms, sps, g), deltaTime, damp), cs)))

\* mutant: the ground collisions are resolved before the constraints
updatedCollidingFirst(ms, sps, cs, g, damp, isEnabled, deltaTime) ==
    IF Skips(isEnabled, deltaTime) THEN ms
    ELSE clearForces(
            applyConstraints(
                handleCollisions(
                    integrate(applyForces(ms, sps, g), deltaTime, damp)), cs))

\* the masses when update(deltaTime) returns
updated(ms, sps, cs, g, damp, isEnabled, deltaTime) ==
    IF Skips(isEnabled, deltaTime) THEN ms
    ELSE clearForces(
            handleCollisions(
                applyConstraints(
                    integrate(applyForces(ms, sps, g), deltaTime, damp), cs)))

\* update(deltaTime), as far as the engine goes
updateCalled(deltaTime) ==
    /\ IF Skips(enabled, deltaTime) THEN TRUE
       ELSE steps < MaxSteps /\ steps + kicks + tweaks < cap
    /\ masses' = updated(masses, springs, constraints, gravity, damping,
                         enabled, deltaTime)
    /\ IF Skips(enabled, deltaTime)
       THEN /\ ret' = RetUndefined
            /\ hist' = [Quiet(hist) EXCEPT
                           !.stale = IF @ = 1 /\ ~enabled THEN 2 ELSE @]
            /\ steps' = steps
       ELSE /\ steps' = steps + 1
            /\ ret' = RetPositions(getMassPositions(masses'))
            /\ LET f == applyForces(masses, springs, gravity)
                   g == integrate(f, deltaTime, damping)
                   c == applyConstraints(g, constraints)
               IN  hist' = [pending |-> Zeros(Len(masses)), stale |-> 0,
                            carried |-> (hist.stale = 2), resets |-> 0,
                            dt |-> deltaTime, before |-> masses, forces |-> f,
                            integrated |-> g, relaxed |-> c,
                            toggled |-> "", toggles |-> 0, untoggled |-> <<>>,
                            thawed |-> IF hist.toggled # ""
                                          /\ ~masses[FindMass(masses, hist.toggled)].fixed
                                       THEN hist.toggled ELSE "",
                            built |-> hist.built, rebuilt |-> FALSE]
    /\ UNCHANGED <<gravity, damping, stiffness, enabled, springs, constraints,
                   originalPositions, kicks, tweaks, cap>>

\* update(deltaTime), called from outside the animation loop
update(deltaTime) == updateCalled(deltaTime) /\ UNCHANGED app

\* mutant: enable flips the flag
enableFlipping ==
    /\ enabled' = ~enabled
    /\ ret' = RetUndefined
    /\ hist' = Quiet(hist)
    /\ UNCHANGED <<gravity, damping, stiffness, masses, springs, constraints,
                   originalPositions, steps, kicks, tweaks, cap, app>>

enable ==
    /\ enabled' = TRUE
    /\ ret' = RetUndefined
    /\ hist' = Quiet(hist)
    /\ UNCHANGED <<gravity, damping, stiffness, masses, springs, constraints,
                   originalPositions, steps, kicks, tweaks, cap, app>>

disable ==
    /\ enabled' = FALSE
    /\ ret' = RetUndefined
    /\ hist' = Quiet(hist)
    /\ UNCHANGED <<gravity, damping, stiffness, masses, springs, constraints,
                   originalPositions, steps, kicks, tweaks, cap, app>>

\* MeshVisualizerApp.togglePhysics writes the flag directly
togglePhysics ==
    /\ enabled' = ~enabled
    /\ ret' = RetUndefined
    /\ hist' = Quiet(hist)
    /\ UNCHANGED <<gravity, damping, stiffness, masses, springs, constraints,
                   originalPositions, steps, kicks, tweaks, cap, app>>

\* a configuration call: it is counted when it changes the engine
Tweak ==
    /\ tweaks < MaxTweaks
    /\ steps + kicks + tweaks < cap
    /\ tweaks' = IF engine' # engine THEN tweaks + 1 ELSE tweaks
    /\ hist' = Quiet(hist)
    /\ UNCHANGED <<steps, kicks, cap, app>>

setGravity(value) ==
    /\ gravity' = value
    /\ ret' = RetUndefined
    /\ UNCHANGED <<damping, stiffness, enabled, masses, springs, constraints,
                   originalPositions>>
    /\ Tweak

\* mutant: the clamp without its lower bound
ClampAbove(v) == Min(Scale, v)

\* Math.max(0, Math.min(1, v))
Clamp01(v) == Max(0, Min(Scale, v))

\* mutant: setStiffness rescales the rest lengths as well
RestiffenSpringsAndLengths(sps, s) ==
    [k \in 1..Len(sps) |->
        [sps[k] EXCEPT !.stiffness = s, !.restLength = Mul(@, s)]]

\* setStiffness, the loop over the springs
RestiffenSprings(sps, s) == [k \in 1..Len(sps) |-> [sps[k] EXCEPT !.stiffness = s]]

setStiffness(value) ==
    /\ stiffness' = Clamp01(value)
    /\ springs' = RestiffenSprings(springs, Clamp01(value))
    /\ ret' = RetUndefined
    /\ UNCHANGED <<gravity, damping, enabled, masses, constraints,
                   originalPositions>>
    /\ Tweak

setDamping(value) ==
    /\ damping' = Clamp01(value)
    /\ ret' = RetUndefined
    /\ UNCHANGED <<gravity, stiffness, enabled, masses, springs, constraints,
                   originalPositions>>
    /\ Tweak

\* mutant: reset leaves the force accumulator alone
resetMassKeepingForce(m, origs) ==
    [m EXCEPT !.position = IF m.id \in DOMAIN origs THEN origs[m.id] ELSE @,
              !.velocity = Zero]

\* mutant: "position += original" for "position = original"
resetMassAdding(m, origs) ==
    [m EXCEPT !.position = IF m.id \in DOMAIN origs THEN VAdd(@, origs[m.id]) ELSE @,
              !.velocity = Zero,
              !.force = Zero]

\* reset, body of the loop: one mass
resetMass(m, origs) ==
    [m EXCEPT !.position = IF m.id \in DOMAIN origs THEN origs[m.id] ELSE @,
              !.velocity = Zero,
              !.force = Zero]

resetMasses(ms, origs) == [i \in 1..Len(ms) |-> resetMass(ms[i], origs)]

reset ==
    /\ masses' = resetMasses(masses, originalPositions)
    /\ ret' = RetUndefined
    /\ hist' = [Quiet(hist) EXCEPT !.pending = Zeros(Len(masses)),
                                   !.stale = 0,
                                   !.resets = Min(hist.resets + 1, 2),
                                   !.rebuilt = hist.rebuilt]
    /\ UNCHANGED <<gravity, damping, stiffness, enabled, springs, constraints,
                   originalPositions, steps, kicks, tweaks, cap, app>>

getPhysicsData ==
    /\ ret' = RetData([enabled |-> enabled, gravity |-> gravity,
                       damping |-> damping, stiffness |-> stiffness,
                       massCount |-> Len(masses), springCount |-> Len(springs),
                       constraintCount |-> Len(constraints)])
    /\ tweaks < MaxTweaks
    /\ steps + kicks + tweaks < cap
    /\ tweaks' = tweaks + 1
    /\ hist' = Quiet(hist)
    /\ UNCHANGED <<engine, steps, kicks, cap, app>>

\* mutant: "mass.fixed = true" for "mass.fixed = !mass.fixed"
fixedSet(ms, massId) ==
    LET i == FindMass(ms, massId)
    IN  IF i # 0 THEN [ms EXCEPT ![i].fixed = TRUE] ELSE ms

\* mutant: a mass that becomes fixed is stopped
fixedToggledStopping(ms, massId) ==
    LET i == FindMass(ms, massId)
    IN  IF i # 0
        THEN [ms EXCEPT ![i].fixed = ~@,
                        ![i].velocity = IF ms[i].fixed THEN @ ELSE Zero]
        ELSE ms

\* the masses after toggleFixed(massId)
fixedToggled(ms, massId) ==
    LET i == FindMass(ms, massId)
    IN  IF i # 0 THEN [ms EXCEPT ![i].fixed = ~@] ELSE ms

toggleFixed(massId) ==
    LET i == FindMass(masses, massId)
    IN  /\ tweaks < MaxTweaks
        /\ steps + kicks + tweaks < cap
        /\ masses' = fixedToggled(masses, massId)
        /\ tweaks' = tweaks + 1
        /\ IF i # 0
           THEN /\ ret' = RetBoolean(masses'[i].fixed)
                /\ hist' = [Quiet(hist) EXCEPT
                               !.toggled = massId,
                               !.toggles = IF hist.toggled = massId
                                           THEN Min(hist.toggles + 1, 2)
                                           ELSE 1,
                               !.untoggled = masses]
           ELSE /\ ret' = RetNull
                /\ hist' = Quiet(hist)
        /\ UNCHANGED <<gravity, damping, stiffness, enabled, springs,
                       constraints, originalPositions, steps, kicks, cap, app>>

\* mutant: applyForce without its "!mass.fixed"
forceAppliedToFixed(ms, massId, force) ==
    LET i == FindMass(ms, massId)
    IN  IF i # 0 THEN [ms EXCEPT ![i].force = VAdd(@, force)] ELSE ms

\* the masses after applyForce(massId, force)
forceApplied(ms, massId, force) ==
    LET i == FindMass(ms, massId)
    IN  IF i # 0 /\ ~ms[i].fixed
        THEN [ms EXCEPT ![i].force = VAdd(@, force)]
        ELSE ms

\* the masses after applyImpulse(massId, impulse)
impulseApplied(ms, massId, impulse) ==
    LET i == FindMass(ms, massId)
    IN  IF i # 0 /\ ~ms[i].fixed
        THEN [ms EXCEPT ![i].velocity =
                Vec(@.x + Div(impulse.x, ms[i].mass),
                    @.y + Div(impulse.y, ms[i].mass),
                    @.z + Div(impulse.z, ms[i].mass))]
        ELSE ms

\* mutant: the wind is added as it is, not multiplied by the mass
windAppliedUnscaled(ms, windForce) ==
    [i \in 1..Len(ms) |->
        IF ~ms[i].fixed
        THEN [ms[i] EXCEPT !.force = VAdd(@, windForce)]
        ELSE ms[i]]

\* the masses after applyWind(windForce)
windApplied(ms, windForce) ==
    [i \in 1..Len(ms) |->
        IF ~ms[i].fixed
        THEN [ms[i] EXCEPT !.force =
                Vec(@.x + Mul(windForce.x, ms[i].mass),
                    @.y + Mul(windForce.y, ms[i].mass),
                    @.z + Mul(windForce.z, ms[i].mass))]
        ELSE ms[i]]

\* mutant: the attenuation grows with the distance
explodeMassGrowing(m, center, radius, force) ==
    LET dx == m.position.x - center.x
        dy == m.position.y - center.y
        dz == m.position.z - center.z
        distance == Dist(dx, dy, dz)
        attenuation == Div(distance, radius)
    IN  IF ~m.fixed /\ distance < radius /\ distance > 0
        THEN [m EXCEPT !.force =
                Vec(@.x + Mul(Mul(Mul(Div(dx, distance), force), attenuation), m.mass),
                    @.y + Mul(Mul(Mul(Div(dy, distance), force), attenuation), m.mass),
                    @.z + Mul(Mul(Mul(Div(dz, distance), force), attenuation), m.mass))]
        ELSE m

\* applyExplosion, body of the loop: one mass
explodeMass(m, center, radius, force) ==
    LET dx == m.position.x - center.x
        dy == m.position.y - center.y
        dz == m.position.z - center.z
        distance == Dist(dx, dy, dz)
        attenuation == Div(radius - distance, radius)
        dirX == Div(dx, distance)
        dirY == Div(dy, distance)
        dirZ == Div(dz, distance)
    IN  IF ~m.fixed /\ distance < radius /\ distance > 0
        THEN [m EXCEPT !.force =
                Vec(@.x + Mul(Mul(Mul(dirX, force), attenuation), m.mass),
                    @.y + Mul(Mul(Mul(dirY, force), attenuation), m.mass),
                    @.z + Mul(Mul(Mul(dirZ, force), attenuation), m.mass))]
        ELSE m

explosionApplied(ms, center, radius, force) ==
    [i \in 1..Len(ms) |-> explodeMass(ms[i], center, radius, force)]

\* a call that adds forces or an impulse and takes the masses to ms2
Kick(ms2) ==
    /\ kicks < MaxKicks
    /\ steps + kicks + tweaks < cap
    /\ masses' = ms2
    /\ kicks' = IF ms2 # masses THEN kicks + 1 ELSE kicks
    /\ ret' = RetUndefined
    /\ UNCHANGED <<gravity, damping, stiffness, enabled, springs, constraints,
                   originalPositions, steps, tweaks, cap, app>>

applyForce(massId, force) ==
    LET ms2 == forceApplied(masses, massId, force)
    IN  Kick(ms2) /\ hist' = Added(hist, masses, ms2, enabled)

applyImpulse(massId, impulse) ==
    Kick(impulseApplied(masses, massId, impulse)) /\ hist' = Quiet(hist)

applyWind(windForce) ==
    LET ms2 == windApplied(masses, windForce)
    IN  Kick(ms2) /\ hist' = Added(hist, masses, ms2, enabled)

applyExplosion(center, radius, force) ==
    LET ms2 == explosionApplied(masses, center, radius, force)
    IN  Kick(ms2) /\ hist' = Added(hist, masses, ms2, enabled)

Next ==
    \/ \E meshData \in Meshes : init(meshData)
    \/ \E deltaTime \in DtInputs : update(deltaTime)
    \/ enable
    \/ disable
    \/ togglePhysics
    \/ \E value \in GravityInputs : setGravity(value)
    \/ \E value \in ClampInputs : setStiffness(value)
    \/ \E value \in ClampInputs : setDamping(value)
    \/ reset
    \/ getPhysicsData
    \/ \E massId \in IdInputs : toggleFixed(massId)
    \/ \E massId \in IdInputs, force \in ForceInputs : applyForce(massId, force)
    \/ \E massId \in IdInputs, impulse \in ForceInputs : applyImpulse(massId, impulse)
    \/ \E windForce \in WindInputs : applyWind(windForce)
    \/ \E e \in ExplosionInputs : applyExplosion(e.center, e.radius, e.force)

Spec == Init /\ [][Next]_vars

---------------------------------------------------------------------------
(* Longer runs over few inputs: the meshes of RigMeshes, one step length,  *)
(* one impulse, and toggleFixed and applyImpulse of two ids.               *)

RigDts == {Scale \div 2}
RigIds == {"spine_center", "hip_left"}
RigImpulses == {Vec(2 * Scale, 30 * Scale, 0 - Scale)}

RigInit == constructor /\ cap = MaxDeep /\ appConstructor

RigNext ==
    \/ \E meshData \in RigMeshes : init(meshData)
    \/ enable
    \/ \E deltaTime \in RigDts : update(deltaTime)
    \/ \E massId \in RigIds : toggleFixed(massId)
    \/ \E massId \in RigIds, impulse \in RigImpulses : applyImpulse(massId, impulse)

SpecRig == RigInit /\ [][RigNext]_vars

---------------------------------------------------------------------------
(* The animation loop of the application (src/app.js) over the engine.     *)
(* Times are milliseconds, as requestAnimationFrame gives them: positive   *)
(* and increasing from frame to frame.                                     *)

\* (currentTime - this.lastTime) / 1000
Seconds(ms) == TDiv(ms * Scale, 1000)

\* mutant: the loop hands deltaTime on as it is
keepDeltaTime(deltaTime) == deltaTime

\* Math.min(deltaTime, 0.1)
clampDeltaTime(deltaTime) == Min(deltaTime, Lit(1, 10))

\* startPhysicsLoop: cancel the pending frame if any, request one
startPhysicsLoop ==
    /\ app' = [app EXCEPT !.animationLoopId = 1, !.lastTime = 0, !.ticks = 0,
                          !.tick = NoTick]
    /\ UNCHANGED <<engine, ret, steps, kicks, tweaks, cap, hist>>

\* physicsLoop(currentTime): the callback of the pending frame
physicsLoop(currentTime) ==
    LET lastTime == IF app.lastTime = 0 THEN currentTime ELSE app.lastTime
        deltaTime == Seconds(currentTime - lastTime)
        clampedDeltaTime == clampDeltaTime(deltaTime)
    IN  /\ app.animationLoopId # 0
        /\ currentTime <= MaxClock
        /\ IF enabled
           THEN updateCalled(clampedDeltaTime)
           ELSE UNCHANGED <<engine, ret, steps, kicks, tweaks, cap, hist>>
        /\ app' = [animationLoopId |-> 1,
                   lastTime |-> currentTime,
                   clock |-> currentTime,
                   ticks |-> Min(app.ticks + 1, 2),
                   tick |-> [elapsed |-> IF app.ticks = 0 THEN 0
                                         ELSE currentTime - app.clock,
                             enabled |-> enabled,
                             called |-> enabled,
                             dt |-> clampedDeltaTime,
                             stepped |-> steps' # steps]]

\* cleanup: cancel the pending frame
cleanup ==
    /\ app' = [app EXCEPT !.animationLoopId = 0]
    /\ UNCHANGED <<engine, ret, steps, kicks, tweaks, cap, hist>>

LoopMeshes == {MeshBall}
\* the time from one frame to the next: a short frame, 0.1 s, and two pauses
FrameGaps == {10, 100, 110, 250}

LoopInit == constructor /\ cap = MaxCalls /\ appConstructor

LoopNext ==
    \/ \E meshData \in LoopMeshes : init(meshData)
    \/ enable
    \/ disable
    \/ togglePhysics
    \/ startPhysicsLoop
    \/ \E gap \in FrameGaps : physicsLoop(app.clock + gap)
    \/ cleanup

SpecLoop == LoopInit /\ [][LoopNext]_vars

---------------------------------------------------------------------------
(* Properties *)

Successful == ret.kind = "positions"

\* C1: update called while the engine is disabled, or with deltaTime <= 0,
\* returns undefined and leaves every field of the engine as it was: the
\* masses with their positions, velocities and force accumulators (forces
\* are not cleared), the springs, the constraints and the configuration.
C1_UpdateSkipsWithoutEffect ==
    [][\A deltaTime \in DtInputs :
          ((~enabled \/ deltaTime <= 0) /\ update(deltaTime))
              => (ret'.kind = Undefined /\ engine' = engine)]_vars

\* a disabled update has been called on masses that hold accumulated force
C1_Witness ==
    /\ hist.stale = 2
    /\ ~enabled
    /\ \E i \in 1..Len(masses) : masses[i].force # Zero

\* C2: a mass that is fixed when update is called has the same position and
\* velocity when update returns, whatever force it holds, whatever springs
\* and constraints touch it and wherever it lies relative to the ground.
C2_FixedMassesDoNotMove ==
    Successful =>
        \A i \in 1..Len(masses) :
            hist.before[i].fixed =>
                /\ masses[i].position = hist.before[i].position
                /\ masses[i].velocity = hist.before[i].velocity

\* a successful update met a fixed mass below the ground that held a force
\* and was tied to a spring
C2_Witness ==
    /\ Successful
    /\ \E i \in 1..Len(masses) :
        /\ hist.before[i].fixed
        /\ hist.before[i].force # Zero
        /\ hist.before[i].position.y < groundY
        /\ \E k \in 1..Len(springs) : i \in {springs[k].mass1, springs[k].mass2}

\* C3: in a successful update every non-fixed mass that is below y = -50
\* after integration and constraint relaxation ends at y = -50 with
\* velocity.y multiplied by -0.7 and velocity.x, velocity.z by 0.9; every
\* other mass leaves the collision phase as it entered it; so after the
\* update no non-fixed mass is below y = -50.
C3_GroundClamp ==
    Successful =>
        \A i \in 1..Len(masses) :
            LET pre == hist.relaxed[i]
                post == masses[i]
            IN  /\ IF ~pre.fixed /\ pre.position.y < -50 * Scale
                   THEN /\ post.position = [pre.position EXCEPT !.y = -50 * Scale]
                        /\ post.velocity.y = Mul(0 - Lit(7, 10), pre.velocity.y)
                        /\ post.velocity.x = Mul(Lit(9, 10), pre.velocity.x)
                        /\ post.velocity.z = Mul(Lit(9, 10), pre.velocity.z)
                   ELSE /\ post.position = pre.position
                        /\ post.velocity = pre.velocity
                /\ ~post.fixed => post.position.y >= -50 * Scale

\* a successful update clamped a mass that was moving along x and y
C3_Witness ==
    /\ Successful
    /\ \E i \in 1..Len(masses) :
        /\ ~hist.relaxed[i].fixed
        /\ hist.relaxed[i].position.y < groundY
        /\ hist.relaxed[i].velocity.x # 0
        /\ hist.relaxed[i].velocity.y < 0
        /\ masses[i].velocity.y > 0

\* C4: when a successful update returns, the force accumulator of every
\* mass, fixed or not, is (0, 0, 0).
C4_ForcesClearedByUpdate ==
    Successful => \A i \in 1..Len(masses) : masses[i].force = Zero

\* a successful update started with force on a fixed and on a free mass
C4_Witness ==
    /\ Successful
    /\ \E i, j \in 1..Len(masses) :
        /\ hist.before[i].fixed /\ hist.before[i].force # Zero
        /\ ~hist.before[j].fixed /\ hist.before[j].force # Zero


\* the velocity integrate gives a mass of velocity v and mass m under force F
Integrated(v, F, m, dt, damp) ==
    Vec(Mul(v.x + Mul(Div(F.x, m), dt), damp),
        Mul(v.y + Mul(Div(F.y, m), dt), damp),
        Mul(v.z + Mul(Div(F.z, m), dt), damp))

\* C5: forces added by applyWind, applyExplosion and applyForce stay in the
\* accumulators, summed, through every update that returns early (disabled
\* updates included) and every other call but reset and init; the first
\* successful update integrates every non-fixed mass under that whole sum
\* plus gravity and the spring forces, and clears it.
C5_ForcesAccumulateWhileDisabled ==
    /\ \A i \in 1..Len(masses) : masses[i].force = hist.pending[i]
    /\ Successful =>
        \A i \in 1..Len(masses) :
            LET b == hist.before[i]
                natural == applyForces(clearForces(hist.before), springs, gravity)[i].force
                F == VAdd(b.force, natural)
                v == Integrated(b.velocity, F, b.mass, hist.dt, damping)
            IN  ~b.fixed =>
                    /\ hist.forces[i].force = F
                    /\ hist.integrated[i].velocity = v
                    /\ hist.relaxed[i].position.y >= groundY
                            => masses[i].velocity = v
                    /\ masses[i].force = Zero

\* a successful update started with the sum of an applyForce and an
\* applyWind that were made while disabled and had outlived a disabled update
C5_Witness ==
    /\ hist.carried
    /\ \E i \in 1..Len(masses), f \in ForceInputs, w \in WindInputs :
        LET b == hist.before[i]
        IN  /\ ~b.fixed
            /\ b.force = VAdd(f, Vec(Mul(w.x, b.mass), Mul(w.y, b.mass),
                                     Mul(w.z, b.mass)))
            /\ hist.relaxed[i].position.y >= groundY

\* C6: reset, in either state, puts every mass at the position recorded for
\* it at construction with velocity and force zero, and leaves enabled,
\* gravity, stiffness, damping, the fixed flags, the springs and the
\* constraints as they were.
C6_ResetRestoresMasses ==
    [][(hist'.resets >= 1 /\ reset) =>
          /\ Len(masses') = Len(masses)
          /\ \A i \in 1..Len(masses) :
                /\ masses'[i].position = masses[i].originalPosition
                /\ masses'[i].velocity = Zero
                /\ masses'[i].force = Zero
                /\ masses'[i].fixed = masses[i].fixed
          /\ UNCHANGED <<enabled, gravity, stiffness, damping, springs,
                         constraints>>]_vars

\* reset was called on an enabled engine after a step, a force and a
\* configuration change
C6_Witness ==
    /\ hist.resets = 1
    /\ enabled
    /\ steps >= 1 /\ kicks >= 1 /\ tweaks >= 1
    /\ \E i \in 1..Len(masses) : ~masses[i].fixed

\* C7: a reset that follows a reset changes nothing.
C7_ResetIdempotent ==
    [][(hist.resets >= 1 /\ hist'.resets = 2 /\ reset) => engine' = engine]_vars

\* reset was called twice in a row after the masses had moved
C7_Witness ==
    /\ hist.resets = 2
    /\ steps >= 1
    /\ \E i \in 1..Len(masses) : ~masses[i].fixed

\* C8: the engine is disabled when constructed, enable leaves it enabled,
\* disable leaves it disabled, and no other method of the engine changes the
\* flag (the one other writer is the application's togglePhysics, which
\* assigns the field).
C8_EnabledFlag ==
    /\ ~enabled
    /\ [][/\ enable => enabled'
          /\ disable => ~enabled'
          /\ enabled' # enabled => (enable \/ disable \/ togglePhysics)]_vars

\* the flag, once set, has outlived a step, a force and a configuration call
C8_Witness ==
    /\ enabled
    /\ steps >= 1 /\ kicks >= 1 /\ tweaks >= 1
    /\ hist.resets = 1

\* C9: stiffness and damping are in [0, 1] in every state; setStiffness(v)
\* and setDamping(v) store min(1, max(0, v)); nothing else writes them.
C9_StiffnessDampingClamped ==
    /\ [](0 <= stiffness /\ stiffness <= Scale /\ 0 <= damping /\ damping <= Scale)
    /\ [][/\ \A v \in ClampInputs :
                /\ setStiffness(v) => stiffness' = Min(Scale, Max(0, v))
                /\ setDamping(v) => damping' = Min(Scale, Max(0, v))
          /\ stiffness' # stiffness => \E v \in ClampInputs : setStiffness(v)
          /\ damping' # damping => \E v \in ClampInputs : setDamping(v)]_vars

\* setStiffness(2) stored 1
C9_Witness ==
    /\ stiffness = Scale
    /\ tweaks = 1

\* C10: init gives every spring the stiffness (global stiffness) x
\* muscleTension, with 0.3 for muscleTension when the mesh gives none;
\* setStiffness(v) gives every spring the clamped global value; nothing but
\* init and setStiffness changes the springs.
C10_SpringStiffness ==
    [][/\ \A m \in Meshes :
            (m.present /\ init(m)) =>
                \A k \in 1..Len(springs') :
                    springs'[k].stiffness =
                        Mul(IF m.hasTension THEN m.muscleTension ELSE Lit(3, 10),
                            stiffness)
       /\ \A v \in ClampInputs :
            setStiffness(v) =>
                \A k \in 1..Len(springs') :
                    springs'[k].stiffness = Min(Scale, Max(0, v))
       /\ springs' # springs =>
            \/ \E m \in Meshes : init(m)
            \/ \E v \in ClampInputs : setStiffness(v)]_vars

\* C11: toggleFixed(id) of an id that names a mass inverts the fixed flag of
\* that one mass, changes nothing else and returns the new flag, so that a
\* second call with the same id right after the first leaves the masses as
\* they were before the first; toggleFixed of an id that names no mass
\* returns null and changes nothing.
C11_ToggleFixed ==
    [][\A id \in IdInputs :
          (ret'.kind \in {"boolean", Null} /\ toggleFixed(id)) =>
              IF \E i \in 1..Len(masses) : masses[i].id = id
              THEN /\ \E i \in 1..Len(masses) :
                        /\ masses[i].id = id
                        /\ masses' = [masses EXCEPT ![i].fixed = ~masses[i].fixed]
                        /\ ret'.kind = "boolean"
                        /\ ret'.flag = masses'[i].fixed
                   /\ UNCHANGED <<gravity, damping, stiffness, enabled, springs,
                                  constraints, originalPositions>>
                   /\ (hist.toggles >= 1 /\ hist.toggled = id)
                        => masses' = hist.untoggled
              ELSE /\ ret'.kind = Null
                   /\ engine' = engine]_vars

\* toggleFixed was called twice in a row on a mass that holds a force or a
\* velocity
C11_Witness ==
    /\ hist.toggles = 2
    /\ \E i \in 1..Len(masses) :
        /\ masses[i].id = hist.toggled
        /\ masses[i].force # Zero \/ masses[i].velocity # Zero

\* what every applyForce, applyImpulse, applyWind and applyExplosion step
\* leaves alone (a quick test that sets the other steps aside)
ForceStep ==
    /\ ret'.kind = Undefined
    /\ steps' = steps
    /\ tweaks' = tweaks
    /\ enabled' = enabled
    /\ hist'.resets = 0
    /\ hist'.built = hist.built

\* C12: applyForce(id, f) and applyImpulse(id, j) change nothing when id
\* names no mass or a fixed mass; for a non-fixed mass applyForce adds f to
\* the force accumulator of that mass and applyImpulse adds j / mass to its
\* velocity, at once and whether the engine is enabled or not, and nothing
\* else changes.
C12_ForceAndImpulse ==
    [][ForceStep => \A id \in IdInputs, f \in ForceInputs :
          LET known == \E i \in 1..Len(masses) : masses[i].id = id /\ ~masses[i].fixed
              i == CHOOSE i \in 1..Len(masses) : masses[i].id = id
              rest == <<gravity, damping, stiffness, enabled, springs,
                        constraints, originalPositions>>
          IN  /\ applyForce(id, f) =>
                    IF known
                    THEN /\ masses' = [masses EXCEPT ![i].force = VAdd(masses[i].force, f)]
                         /\ UNCHANGED rest
                    ELSE engine' = engine
              /\ applyImpulse(id, f) =>
                    IF known
                    THEN /\ masses' = [masses EXCEPT ![i].velocity =
                                Vec(masses[i].velocity.x + Div(f.x, masses[i].mass),
                                    masses[i].velocity.y + Div(f.y, masses[i].mass),
                                    masses[i].velocity.z + Div(f.z, masses[i].mass))]
                         /\ UNCHANGED rest
                    ELSE engine' = engine]_vars

\* a force and an impulse were given to a non-fixed mass of an enabled
\* engine that has a fixed mass too
C12_Witness ==
    /\ enabled
    /\ steps = 0
    /\ hist.stale = 0
    /\ \E i, j \in 1..Len(masses), f \in ForceInputs :
        /\ ~masses[i].fixed
        /\ masses[i].force = f
        /\ masses[i].velocity = Vec(Div(f.x, masses[i].mass), Div(f.y, masses[i].mass),
                                    Div(f.z, masses[i].mass))
        /\ masses[j].fixed
        /\ masses[j].force = Zero /\ masses[j].velocity = Zero

\* C13: the springs are, in edge order, one for each edge of the mesh the
\* engine was built from whose two ids both name a vertex, and none for an
\* edge that names a missing id; every spring joins two masses of the mass
\* list; springCount of getPhysicsData is the number of those edges.
C13_SpringsFromEdges ==
    LET m == hist.built
        ids == {m.vertices[i].id : i \in 1..Len(m.vertices)}
        good == SelectSeq(m.edges, LAMBDA e : e[1] \in ids /\ e[2] \in ids)
    IN  /\ Len(springs) = Len(good)
        /\ \A k \in 1..Len(springs) :
                /\ springs[k].mass1 \in 1..Len(masses)
                /\ springs[k].mass2 \in 1..Len(masses)
                /\ masses[springs[k].mass1].id = good[k][1]
                /\ masses[springs[k].mass2].id = good[k][2]
        /\ ret.kind = "data" => ret.data.springCount = Len(good)

\* getPhysicsData reported one spring for the mesh that has two edges, one
\* of them to a vertex that does not exist
C13_Witness ==
    /\ ret.kind = "data"
    /\ ret.data.springCount = 1
    /\ ret.data.massCount = 2
    /\ \E i \in 1..Len(masses) : masses[i].id = "waist_center_front"

\* the distance constraints of a constraint list
DistanceConstraints(cs) == SelectSeq(cs, LAMBDA c : c.type = "distance")

\* C14: when the mesh the engine was built from has
\* metadata.biomechanical.jointConstraints truthy, the distance constraints
\* are, in table order, one for each of the 8 table pairs whose two ids both
\* name a mass, with the table's distance and stiffness 0.9, and none for a
\* pair with an absent id; when it has not, there is no distance constraint.
C14_JointConstraints ==
    LET m == hist.built
        ids == {m.vertices[i].id : i \in 1..Len(m.vertices)}
        pairs == SelectSeq(jointConstraints,
                    LAMBDA t : t[1] \in ids /\ t[2] \in ids)
        ds == DistanceConstraints(constraints)
    IN  IF m.jointConstraints
        THEN /\ Len(ds) = Len(pairs)
             /\ \A k \in 1..Len(pairs) :
                   /\ masses[ds[k].mass1].id = pairs[k][1]
                   /\ masses[ds[k].mass2].id = pairs[k][2]
                   /\ ds[k].distance = pairs[k][3]
                   /\ ds[k].stiffness = Lit(9, 10)
        ELSE ds = <<>>

\* the torso mesh, with the flag set and one pair of the table present, has
\* that pair's constraint of 15 units and no other
C14_Witness ==
    /\ Len(DistanceConstraints(constraints)) = 1
    /\ \E k \in 1..Len(constraints) :
        /\ constraints[k].type = "distance"
        /\ constraints[k].distance = 15 * Scale
        /\ masses[constraints[k].mass1].id = "spine_center"
        /\ masses[constraints[k].mass2].id = "waist_center_front"

\* C15: the constraint list holds distance constraints only, whatever mesh
\* the engine was built from, also one with a non-fixed vertex below
\* y = -50; so constraintCount of getPhysicsData is the number of installed
\* distance constraints.
C15_OnlyDistanceConstraints ==
    /\ \A k \in 1..Len(constraints) : constraints[k].type = "distance"
    /\ ret.kind = "data" =>
            ret.data.constraintCount = Len(DistanceConstraints(constraints))

\* C16: a successful update returns a list of as many entries as there are
\* masses, the i-th being the id of the i-th vertex of the mesh with the
\* position that the i-th mass has when the update returns, for fixed and
\* non-fixed masses alike.
C16_UpdateReturnsPositions ==
    Successful =>
        /\ Len(ret.positions) = Len(masses)
        /\ \A i \in 1..Len(masses) :
                ret.positions[i] =
                    [id |-> masses[i].id, position |-> masses[i].position]
        /\ \E m \in Meshes :
                /\ Len(m.vertices) = Len(ret.positions)
                /\ \A i \in 1..Len(m.vertices) :
                        ret.positions[i].id = m.vertices[i].id

\* a successful update that moved a mass returned a fixed mass first and
\* the moved mass second
C16_Witness ==
    /\ Successful
    /\ Len(ret.positions) = 2
    /\ masses[1].fixed
    /\ ~masses[2].fixed
    /\ ret.positions[2].position # hist.before[2].position

\* C17: in every state a mass whose fixed flag is set has velocity (0,0,0)
\* and force (0,0,0), and no call other than a rebuild by init changes the
\* position of a mass whose flag is set before and after the call.
C17_FixedMassesAtRest ==
    /\ [](\A i \in 1..Len(masses) :
            masses[i].fixed =>
                masses[i].velocity = Zero /\ masses[i].force = Zero)
    /\ [][(masses' # masses /\ ~(\E m \in Meshes : init(m))) =>
            \A i \in 1..Len(masses) :
                (masses[i].fixed /\ masses'[i].fixed) =>
                    masses'[i].position = masses[i].position]_vars

\* equal up to the rounding of two units of 1 / Scale
Near(a, b) == Abs(a - b) <= 2

\* C18: a successful update of a non-fixed mass that no spring and no
\* distance constraint touches, that holds no applied force and that stays
\* above the ground gives it, for gravity g, damping d and step dt, the
\* velocity v_y' = d * (v_y - g * dt), up to rounding, and the height
\* y' = y + v_y' * dt, whatever its mass.
C18_FreeFall ==
    Successful =>
        \A i \in 1..Len(masses) :
            LET b == hist.before[i]
                loose ==
                    /\ \A k \in 1..Len(springs) :
                            springs[k].mass1 # i /\ springs[k].mass2 # i
                    /\ \A k \in 1..Len(constraints) :
                            constraints[k].type = "distance" =>
                                constraints[k].mass1 # i /\ constraints[k].mass2 # i
            IN  (/\ ~b.fixed
                 /\ loose
                 /\ b.force = Zero
                 /\ hist.relaxed[i].position.y >= -50 * Scale) =>
                    /\ Near(masses[i].velocity.y,
                            Mul(damping, b.velocity.y - Mul(gravity, hist.dt)))
                    /\ masses[i].position.y =
                            b.position.y + Mul(masses[i].velocity.y, hist.dt)

\* the second successful update of a falling single mass of mass 3
C18_Witness ==
    /\ Successful
    /\ Len(masses) = 1
    /\ springs = <<>> /\ constraints = <<>>
    /\ ~masses[1].fixed
    /\ masses[1].mass = 3 * Scale
    /\ hist.before[1].force = Zero
    /\ hist.before[1].velocity.y < 0
    /\ masses[1].position.y > -50 * Scale
    /\ gravity = Lit(98, 10)

\* C19: in a successful update a non-fixed mass all of whose springs have
\* their two ends exactly restLength apart when the forces are computed gets
\* no spring force: its force is what it held plus gravity (0, -mass * g, 0);
\* this is so for every non-fixed mass when no mass has left its
\* construction position, since restLength is the construction-time length.
C19_RestLengthNeutral ==
    Successful =>
        LET ms == hist.before
            apart(k) ==
                LET p == ms[springs[k].mass1].position
                    q == ms[springs[k].mass2].position
                IN  Dist(q.x - p.x, q.y - p.y, q.z - p.z)
            atRest(i) ==
                \A k \in 1..Len(springs) :
                    (springs[k].mass1 = i \/ springs[k].mass2 = i)
                        => apart(k) = springs[k].restLength
            unmoved == \A j \in 1..Len(ms) : ms[j].position = ms[j].originalPosition
        IN  \A i \in 1..Len(ms) :
                (~ms[i].fixed /\ (atRest(i) \/ unmoved)) =>
                    hist.forces[i].force =
                        VAdd(ms[i].force, Vec(0, 0 - Mul(ms[i].mass, gravity), 0))

\* the first successful update after construction met a non-fixed mass that
\* held an applied force and was tied by a spring of non-zero stiffness
C19_Witness ==
    /\ Successful
    /\ steps = 1
    /\ gravity > 0
    /\ \E i \in 1..Len(masses), k \in 1..Len(springs) :
        /\ ~hist.before[i].fixed
        /\ hist.before[i].force # Zero
        /\ hist.before[i].position = hist.before[i].originalPosition
        /\ springs[k].mass1 = i \/ springs[k].mass2 = i
        /\ springs[k].stiffness > 0
        /\ springs[k].restLength > 0

\* equal up to the rounding of a force that is a product of a unit vector,
\* an attenuation and a scale s: the vector and the attenuation are each
\* rounded by up to one unit of 1 / Scale and then multiplied by up to s
NearForce(a, b, s) == Abs(a - b) * Scale <= 2 * (s + Scale)

\* C20: applyExplosion(center, radius, F) adds to each non-fixed mass at a
\* distance r from center with 0 < r < radius the force of magnitude
\* F * mass * (radius - r) / radius along the unit vector from center to the
\* mass, up to rounding; it adds nothing to a mass with r >= radius, to a
\* mass at center and to a fixed mass; it changes no position, no velocity
\* and nothing else.
C20_ExplosionFalloff ==
    [][ForceStep => \A e \in ExplosionInputs :
          applyExplosion(e.center, e.radius, e.force) =>
              /\ UNCHANGED <<gravity, damping, stiffness, enabled, springs,
                             constraints, originalPositions>>
              /\ Len(masses') = Len(masses)
              /\ \A i \in 1..Len(masses) :
                    LET m == masses[i]
                        dx == m.position.x - e.center.x
                        dy == m.position.y - e.center.y
                        dz == m.position.z - e.center.z
                        r == Dist(dx, dy, dz)
                        magnitude == Div(Mul(Mul(e.force, m.mass), e.radius - r),
                                         e.radius)
                        added == VSub(masses'[i].force, m.force)
                    IN  /\ masses'[i] = [m EXCEPT !.force = masses'[i].force]
                        /\ IF ~m.fixed /\ 0 < r /\ r < e.radius
                           THEN /\ NearForce(added.x, Mul(magnitude, Div(dx, r)),
                                             Mul(e.force, m.mass))
                                /\ NearForce(added.y, Mul(magnitude, Div(dy, r)),
                                             Mul(e.force, m.mass))
                                /\ NearForce(added.z, Mul(magnitude, Div(dz, r)),
                                             Mul(e.force, m.mass))
                           ELSE added = Zero]_vars

\* an explosion centred on one free mass, with a second free mass inside
\* its radius, pushed the second up and sideways and left the first alone
C20_Witness ==
    /\ kicks = 1
    /\ steps = 0
    /\ \E i, j \in 1..Len(masses) :
        /\ masses[i].id = "foot_left"
        /\ ~masses[i].fixed
        /\ masses[i].force = Zero
        /\ masses[j].id = "knee_left"
        /\ masses[j].force.x > 0
        /\ masses[j].force.y > 0
        /\ masses[j].velocity = Zero
        /\ masses[j].position = masses[j].originalPosition

\* C21: applyWind(w) adds w * mass to the force accumulator of every
\* non-fixed mass, on top of what the accumulator holds (so repeated calls
\* add up), and changes nothing else: no fixed mass, no position, no
\* velocity, no other field of the engine; when a successful update
\* returns, nothing of it is left in any accumulator.
C21_Wind ==
    /\ [](Successful => \A i \in 1..Len(masses) : masses[i].force = Zero)
    /\ [][ForceStep => \A w \in WindInputs :
            applyWind(w) =>
                /\ UNCHANGED <<gravity, damping, stiffness, enabled, springs,
                               constraints, originalPositions>>
                /\ Len(masses') = Len(masses)
                /\ \A i \in 1..Len(masses) :
                      LET m == masses[i]
                      IN  masses'[i] =
                            IF m.fixed THEN m
                            ELSE [m EXCEPT !.force =
                                    Vec(m.force.x + Mul(w.x, m.mass),
                                        m.force.y + Mul(w.y, m.mass),
                                        m.force.z + Mul(w.z, m.mass))]]_vars

\* applyWind was called twice before any update on a mesh that has a fixed
\* and a non-fixed mass: the non-fixed mass holds twice w * mass
C21_Witness ==
    /\ kicks = 2
    /\ steps = 0
    /\ \E i, j \in 1..Len(masses), w \in WindInputs :
        /\ masses[i].fixed
        /\ masses[i].force = Zero
        /\ ~masses[j].fixed
        /\ masses[j].force = Vec(2 * Mul(w.x, masses[j].mass),
                                 2 * Mul(w.y, masses[j].mass),
                                 2 * Mul(w.z, masses[j].mass))
        /\ masses[j].force # Zero

\* what every init step leaves alone (a quick test that sets the other
\* steps aside)
InitStep ==
    /\ ret'.kind = Undefined
    /\ steps' = steps
    /\ kicks' = kicks
    /\ tweaks' = tweaks
    /\ enabled' = enabled
    /\ hist'.resets = 0
    /\ hist'.stale = 0
    /\ hist'.before = <<>>

\* C22: init(mesh) leaves the engine with one mass for each vertex of the
\* new mesh, at the vertex, with velocity and force zero, with springs and
\* distance constraints that join these masses along edges and table pairs
\* of the new mesh, and with the vertices of the new mesh, and no other,
\* as recorded original positions; enabled, gravity, damping and the global
\* stiffness are as before; a reset puts every mass at its vertex of the
\* mesh of the last init.
C22_InitReplaces ==
    /\ [](hist.resets >= 1 =>
            \A i \in 1..Len(masses) :
                LET v == hist.built.vertices[i]
                IN  masses[i].position = Vec(v.x, v.y, v.z))
    /\ [][InitStep => \A m \in Meshes :
            (m.present /\ hist'.built = m /\ init(m)) =>
                LET vs == m.vertices
                    ids == {vs[i].id : i \in 1..Len(vs)}
                IN  /\ UNCHANGED <<enabled, gravity, damping, stiffness>>
                    /\ Len(masses') = Len(vs)
                    /\ \A i \in 1..Len(vs) :
                          /\ masses'[i].id = vs[i].id
                          /\ masses'[i].position = Vec(vs[i].x, vs[i].y, vs[i].z)
                          /\ masses'[i].velocity = Zero
                          /\ masses'[i].force = Zero
                    /\ DOMAIN originalPositions' = ids
                    /\ \A i \in 1..Len(vs) :
                          originalPositions'[vs[i].id] = Vec(vs[i].x, vs[i].y, vs[i].z)
                    /\ \A k \in 1..Len(springs') :
                          \E e \in 1..Len(m.edges) :
                              /\ masses'[springs'[k].mass1].id = m.edges[e][1]
                              /\ masses'[springs'[k].mass2].id = m.edges[e][2]
                    /\ \A k \in 1..Len(constraints') :
                          constraints'[k].type = "distance" =>
                              /\ masses'[constraints'[k].mass1].id \in ids
                              /\ masses'[constraints'[k].mass2].id \in ids]_vars

\* an engine that had worked on another mesh was given a new mesh, and then
\* reset
C22_Witness ==
    /\ hist.rebuilt
    /\ hist.resets = 1
    /\ steps >= 1
    /\ kicks >= 1
    /\ Len(masses) = 2


---------------------------------------------------------------------------
\* C23: a successful update runs its phases in this order, each over all
\* masses before the next starts: forces (gravity, then springs, which read
\* the positions the update started with), integrate, the distance
\* constraints, the ground collisions, clear the forces, then the snapshot
\* it returns.  So the constraints correct the integrated positions and
\* leave the velocities alone, the ground clamp is the last thing done to a
\* position (no free mass ends below the ground, whatever the constraints
\* did), every accumulator ends at zero, and the snapshot shows the final
\* positions.
C23_PhaseOrder ==
    Successful =>
        LET f == applyForces(hist.before, springs, gravity)
            g == integrate(f, hist.dt, damping)
            c == applyConstraints(g, constraints)
            h == handleCollisions(c)
        IN  /\ hist.forces = f /\ hist.integrated = g /\ hist.relaxed = c
            /\ masses = clearForces(h)
            /\ ret.positions = getMassPositions(masses)
            /\ \A i \in 1..Len(masses) :
                    /\ f[i].position = hist.before[i].position
                    /\ f[i].velocity = hist.before[i].velocity
                    /\ g[i].force = f[i].force
                    /\ c[i].velocity = g[i].velocity
                    /\ masses[i].position =
                            IF ~c[i].fixed /\ c[i].position.y < groundY
                            THEN [c[i].position EXCEPT !.y = groundY]
                            ELSE c[i].position
                    /\ ~masses[i].fixed => masses[i].position.y >= groundY
                    /\ masses[i].force = Zero
                    /\ ret.positions[i].position = masses[i].position

\* an update in which a stretched spring pulled on a mass, and a distance
\* constraint pushed a mass down to below the ground, from where the
\* collision phase put it back on the ground
C23_Witness ==
    /\ Successful
    /\ \E j \in 1..Len(masses) : hist.forces[j].force.x # 0
    /\ \E i \in 1..Len(masses) :
            /\ hist.relaxed[i].position.y < hist.integrated[i].position.y
            /\ hist.relaxed[i].position.y < groundY
            /\ masses[i].position.y = groundY


---------------------------------------------------------------------------
\* one application of a distance constraint c to the masses ms, as C24
\* states it: with d the current distance, d # 0, mass1 moves by
\* 0.5 * stiffness * ((d - target) / d) times the vector from mass1 to
\* mass2 and mass2 by the opposite, fixed ends staying where they are
Moved(ms, c) ==
    LET p1 == ms[c.mass1].position
        p2 == ms[c.mass2].position
        d == Dist(p2.x - p1.x, p2.y - p1.y, p2.z - p1.z)
        part(e) == Mul(Mul(Mul(e, Div(d - c.distance, d)), Lit(5, 10)), c.stiffness)
        by == Vec(part(p2.x - p1.x), part(p2.y - p1.y), part(p2.z - p1.z))
    IN  IF d = 0 THEN ms
        ELSE [i \in 1..Len(ms) |->
                IF ms[i].fixed THEN ms[i]
                ELSE IF i = c.mass1 /\ i = c.mass2 THEN ms[i]
                ELSE IF i = c.mass1 THEN [ms[i] EXCEPT !.position = VAdd(@, by)]
                ELSE IF i = c.mass2 THEN [ms[i] EXCEPT !.position = VSub(@, by)]
                ELSE ms[i]]

\* the applications k, k + 1, ..., 3 * Len(dcs) of the distance constraints
\* dcs: three rounds, each in the order of dcs
RECURSIVE MovedFrom(_, _, _)
MovedFrom(ms, dcs, k) ==
    IF k > 3 * Len(dcs) THEN ms
    ELSE MovedFrom(Moved(ms, dcs[((k - 1) % Len(dcs)) + 1]), dcs, k + 1)

\* C24: a successful update applies every distance constraint exactly 3
\* times, as 3 full passes in construction order, each application reading
\* the positions the earlier ones left; one application moves mass1 by
\* +0.5 * stiffness * ((d - target) / d) times the vector mass1 -> mass2 and
\* mass2 by the opposite, moves only non-fixed ends (a free end paired with a
\* fixed one by the same half correction), does nothing when both are fixed,
\* and changes no velocity.
C24_ConstraintPasses ==
    Successful =>
        LET dcs == DistanceConstraints(constraints)
        IN  /\ hist.relaxed = MovedFrom(hist.integrated, dcs, 1)
            /\ \A i \in 1..Len(masses) :
                    /\ hist.relaxed[i].velocity = hist.integrated[i].velocity
                    /\ hist.relaxed[i].force = hist.integrated[i].force
                    /\ hist.integrated[i].fixed =>
                            hist.relaxed[i].position = hist.integrated[i].position
                    /\ (\A k \in 1..Len(dcs) :
                            i \in {dcs[k].mass1, dcs[k].mass2} =>
                                /\ hist.integrated[dcs[k].mass1].fixed
                                /\ hist.integrated[dcs[k].mass2].fixed)
                        => hist.relaxed[i].position = hist.integrated[i].position

\* an update with two distance constraints that share a free mass, one to a
\* fixed mass and one to a free mass, in which every free end was moved
C24_Witness ==
    /\ Successful
    /\ \E a, b \in 1..Len(constraints) :
            /\ a < b
            /\ constraints[a].type = "distance" /\ constraints[b].type = "distance"
            /\ constraints[a].mass2 = constraints[b].mass1
            /\ hist.integrated[constraints[a].mass1].fixed
            /\ ~hist.integrated[constraints[a].mass2].fixed
            /\ ~hist.integrated[constraints[b].mass2].fixed
            /\ \A i \in {constraints[a].mass2, constraints[b].mass2} :
                    hist.relaxed[i].position # hist.integrated[i].position


---------------------------------------------------------------------------
\* the ends of a spring or distance constraint c are at the same point in ms
Coincide(ms, c) == ms[c.mass1].position = ms[c.mass2].position

\* the force of the spring sp on its mass1 when its ends are apart:
\* stiffness * (distance - restLength) along the direction mass1 -> mass2
SpringPull(ms, sp) ==
    LET p1 == ms[sp.mass1].position
        p2 == ms[sp.mass2].position
        d == Dist(p2.x - p1.x, p2.y - p1.y, p2.z - p1.z)
        along(e) == Mul(Mul(sp.stiffness, d - sp.restLength), Div(e, d))
    IN  Vec(along(p2.x - p1.x), along(p2.y - p1.y), along(p2.z - p1.z))

\* what the springs sps[k..] whose ends are apart in ms add to mass i
RECURSIVE SpringSum(_, _, _, _)
SpringSum(ms, sps, i, k) ==
    IF k > Len(sps) THEN Zero
    ELSE LET rest == SpringSum(ms, sps, i, k + 1)
             f == SpringPull(ms, sps[k])
         IN  IF Coincide(ms, sps[k]) THEN rest
             ELSE IF sps[k].mass1 = i /\ sps[k].mass2 = i THEN rest
             ELSE IF sps[k].mass1 = i THEN VAdd(rest, f)
             ELSE IF sps[k].mass2 = i THEN VSub(rest, f)
             ELSE rest

\* C25: a spring or distance constraint whose two ends coincide when it is
\* evaluated adds no force and moves nothing, and the update completes;
\* every other spring and constraint of that step is evaluated as usual,
\* and so is the same one in a later evaluation in which its ends are apart.
\* Forces: each free mass gets gravity and the pull of every spring whose
\* ends are apart, nothing else.  Positions: the constraint phase is the
\* sequence of applications of C24, in which an application at distance 0
\* changes nothing; a pair that coincides and shares no mass with another
\* constraint stays where integration left it.
C25_CoincidentEndsSkipped ==
    Successful =>
        LET dcs == DistanceConstraints(constraints)
        IN  /\ \A i \in 1..Len(masses) :
                    hist.forces[i].force =
                        IF hist.before[i].fixed THEN hist.before[i].force
                        ELSE VAdd(VAdd(hist.before[i].force,
                                       Vec(0, 0 - Mul(hist.before[i].mass, gravity), 0)),
                                  SpringSum(hist.before, springs, i, 1))
            /\ hist.relaxed = MovedFrom(hist.integrated, dcs, 1)
            /\ \A k \in 1..Len(dcs) :
                    ( /\ Coincide(hist.integrated, dcs[k])
                      /\ \A j \in 1..Len(dcs) :
                            j # k => {dcs[j].mass1, dcs[j].mass2}
                                        \cap {dcs[k].mass1, dcs[k].mass2} = {} )
                    => \A i \in {dcs[k].mass1, dcs[k].mass2} :
                            hist.relaxed[i].position = hist.integrated[i].position

\* an update in which the ends of one spring and of one distance constraint
\* coincided while another spring pulled and another constraint moved a
\* mass
C25_Witness ==
    /\ Successful
    /\ \E k, j \in 1..Len(springs) :
            /\ Coincide(hist.before, springs[k])
            /\ ~Coincide(hist.before, springs[j])
            /\ SpringPull(hist.before, springs[j]) # Zero
    /\ \E k, j \in 1..Len(constraints) :
            /\ constraints[k].type = "distance" /\ constraints[j].type = "distance"
            /\ Coincide(hist.integrated, constraints[k])
            /\ Coincide(hist.relaxed, constraints[k])
            /\ hist.relaxed[constraints[j].mass2].position
                    # hist.integrated[constraints[j].mass2].position


---------------------------------------------------------------------------
\* C26: from one init to the next, whatever is called in between (update,
\* reset, the setters, toggleFixed, applyForce, applyImpulse, applyWind,
\* applyExplosion), every spring keeps the rest length and every mass the
\* original position it was built with: the distance between the two
\* vertices of its edge, and the coordinates of its vertex, in the mesh of
\* the last init.
C26_RestLengthAndOriginalsKept ==
    hist.built.present =>
        LET ms0 == NewMasses(hist.built)
            sp0 == NewSprings(ms0, hist.built, Stiffness0)
            vs == hist.built.vertices
        IN  /\ Len(springs) = Len(sp0)
            /\ \A k \in 1..Len(springs) :
                    /\ springs[k].restLength = sp0[k].restLength
                    /\ springs[k].restLength =
                            Dist(vs[springs[k].mass2].x - vs[springs[k].mass1].x,
                                 vs[springs[k].mass2].y - vs[springs[k].mass1].y,
                                 vs[springs[k].mass2].z - vs[springs[k].mass1].z)
            /\ Len(masses) = Len(vs)
            /\ \A i \in 1..Len(masses) :
                    /\ masses[i].originalPosition = Vec(vs[i].x, vs[i].y, vs[i].z)
                    /\ originalPositions[masses[i].id] = masses[i].originalPosition
            /\ DOMAIN originalPositions = {vs[i].id : i \in 1..Len(vs)}

\* after a step, a force or impulse and a change of stiffness, with a
\* spring of positive rest length and a mass away from where it was built
C26_Witness ==
    /\ steps >= 1 /\ kicks >= 1
    /\ stiffness # Stiffness0
    /\ \E k \in 1..Len(springs) : springs[k].restLength > 0
    /\ \E i \in 1..Len(masses) : masses[i].position # masses[i].originalPosition


---------------------------------------------------------------------------
\* C27: init builds one mass per vertex, in order, with mass = weight * 10,
\* which is strictly positive, zero velocity and force, position and
\* original position at the vertex, and fixed exactly when the vertex type
\* is "joint" or its group contains "head".  The id, the mass and the
\* original position never change afterwards, so they are compared in every
\* state; the other fields are compared where nothing but init, enable,
\* disable, reset and skipped updates has been called, and right after an
\* init that replaced the masses of another mesh.
C27_MassConstruction ==
    hist.built.present =>
        LET vs == hist.built.vertices
        IN  /\ Len(masses) = Len(vs)
            /\ \A i \in 1..Len(masses) :
                    /\ masses[i].id = vs[i].id
                    /\ masses[i].mass = vs[i].weight * 10
                    /\ masses[i].mass > 0
                    /\ masses[i].originalPosition = Vec(vs[i].x, vs[i].y, vs[i].z)
                    /\ ( \/ steps + kicks + tweaks = 0
                         \/ hist.rebuilt /\ hist.resets = 0 )
                       => /\ masses[i].position = Vec(vs[i].x, vs[i].y, vs[i].z)
                          /\ masses[i].velocity = Zero
                          /\ masses[i].force = Zero
                          /\ masses[i].fixed =
                                (vs[i].type = "joint" \/ GroupIncludesHead(vs[i].group))


---------------------------------------------------------------------------
\* C28: the animation loop never hands the engine a time step above 0.1 s.
\* On every frame the deltaTime it has for update is min(seconds since the
\* frame before, 0.1); on the first frame after startPhysicsLoop it is 0, so
\* that frame makes no step; and update is called only when the engine is
\* enabled.  Every successful update of a run driven by the loop therefore
\* has deltaTime in (0, 0.1].
C28_LoopClampsDeltaTime ==
    /\ Successful => hist.dt > 0 /\ hist.dt <= Lit(1, 10)
    /\ app.ticks > 0 =>
            /\ app.tick.dt = Min(Seconds(app.tick.elapsed), Lit(1, 10))
            /\ app.tick.dt <= Lit(1, 10)
            /\ app.ticks = 1 => app.tick.dt = 0 /\ ~app.tick.stepped
            /\ app.tick.called => app.tick.enabled
            /\ app.tick.stepped => app.tick.called /\ app.tick.dt > 0

\* a frame a quarter of a second after the one before it, with the engine
\* enabled: the engine stepped by 0.1 s
C28_Witness ==
    /\ app.ticks = 2
    /\ app.tick.elapsed > 100
    /\ app.tick.stepped
    /\ Successful
    /\ hist.dt = Lit(1, 10)
    /\ masses # <<>>


---------------------------------------------------------------------------
\* C29: whenever the collision phase of an update clamps a non-fixed mass
\* to the ground, the velocity.y of that mass after the update is >= 0: no
\* mass is left on the ground moving downward, whatever brought it below
\* the ground and whatever its velocity.y was.
C29_BounceLeavesUpward ==
    Successful =>
        \A i \in 1..Len(masses) :
            (~hist.relaxed[i].fixed /\ hist.relaxed[i].position.y < groundY)
                => /\ masses[i].position.y = groundY
                   /\ masses[i].velocity.y >= 0


---------------------------------------------------------------------------
\* C30: toggleFixed(id) changes nothing but the one fixed flag: position,
\* velocity and force of that mass, every other mass, every spring and
\* constraint and the configuration stay as they are.  So a mass that is
\* fixed while it moves keeps its stored velocity through every later call
\* for as long as it is fixed (steps, impulses, other toggles), and the
\* first successful update after it is un-fixed integrates it from that
\* velocity: v' = damping * (v + (force / mass) * dt), position + v' * dt.
C30_ToggleFixedKeepsMotion ==
    [][/\ \A id \in RigIds :
            (ret'.kind \in {"boolean", Null} /\ toggleFixed(id)) =>
                /\ Len(masses') = Len(masses)
                /\ \A i \in 1..Len(masses) :
                        /\ masses'[i] = [masses[i] EXCEPT !.fixed = masses'[i].fixed]
                        /\ masses'[i].fixed # masses[i].fixed
                            <=> (masses[i].id = id
                                 /\ \A j \in 1..(i - 1) : masses[j].id # id)
                /\ UNCHANGED <<gravity, damping, stiffness, enabled, springs,
                               constraints, originalPositions>>
       /\ ~(\E m \in RigMeshes : init(m)) =>
            \A i \in 1..Len(masses) :
                (masses[i].fixed /\ masses'[i].fixed) =>
                    /\ masses'[i].velocity = masses[i].velocity
                    /\ masses'[i].position = masses[i].position
       /\ \A dt \in RigDts :
            (ret'.kind = "positions" /\ update(dt)) =>
                \A i \in 1..Len(masses) :
                    ~masses[i].fixed =>
                        LET v == Integrated(masses[i].velocity, hist'.forces[i].force,
                                            masses[i].mass, dt, damping)
                        IN  /\ hist'.integrated[i].velocity = v
                            /\ hist'.integrated[i].position =
                                    VAdd(masses[i].position,
                                         Vec(Mul(v.x, dt), Mul(v.y, dt), Mul(v.z, dt)))
      ]_vars

\* the second step of: applyImpulse on a free mass, toggleFixed of it, a
\* step (another mass moves, this one stays where it was built),
\* toggleFixed of it again, a step: the mass, un-fixed by the call before,
\* started this step where it was built with the velocity of the impulse,
\* and moved
C30_Witness ==
    /\ Successful
    /\ steps = 2 /\ kicks = 1 /\ tweaks = 2
    /\ \E i, j \in 1..Len(masses) :
            /\ hist.thawed = masses[i].id
            /\ ~IsFixedVertex(hist.built.vertices[i])
            /\ ~hist.before[i].fixed
            /\ hist.before[i].position = hist.before[i].originalPosition
            /\ \E impulse \in RigImpulses :
                    hist.before[i].velocity =
                        Vec(Div(impulse.x, hist.before[i].mass),
                            Div(impulse.y, hist.before[i].mass),
                            Div(impulse.z, hist.before[i].mass))
            /\ hist.before[j].position # hist.before[j].originalPosition
            /\ hist.integrated[i].position # hist.before[i].position

=============================================================================
